---- MODULE Spec2Model ----
(***************************************************************************)
(* The scan of app.py: the ticker text is parsed, every ticker is fetched  *)
(* from the market data provider and analysed inside one try block, and    *)
(* the table and the chart are rendered from what the loop collected.      *)
(*                                                                         *)
(* Numbers.  Floats are modelled by integers with a stated unit:           *)
(*   prices (Close, Low, High)         thousandths of a currency unit      *)
(*   EMA_20, EMA_50                    thousandths, times EmaScale         *)
(*   RSI column                        hundredths of an RSI point          *)
(*   Price, Support, Resistance        hundredths (after round(x, 2))      *)
(*   Confidence (%), Smart Money (Z)   hundredths (after round(x, 2))      *)
(*   RSI of a record                   tenths (after round(x, 1))          *)
(* NaN is one distinguished value; every comparison with it is false and   *)
(* every arithmetic operation on it gives NaN, as in IEEE arithmetic.      *)
(***************************************************************************)
EXTENDS Integers, Sequences, FiniteSets, TLC

VARIABLES
    tickers_input,   \* the text of the ticker box, a sequence of characters
    pc,              \* "idle" | "warned" | "loop" | "render" | "done"
    tickers,         \* the parsed ticker list
    pos,             \* number of tickers the for loop has consumed
    fetched,         \* the provider's answer to each history() call, in call order
    results,         \* the list of result records
    data_for_plot,   \* <<>> for None, <<frame>> once set
    errors,          \* the tickers st.error was called for, one entry per call
    warned,          \* st.warning was called
    table,           \* st.dataframe was called
    chart,           \* st.plotly_chart was called
    seen             \* history: the <<ticker, answer, record>> of every record made
                     \* since the page was opened (the script keeps none of it)

vars == <<tickers_input, pc, tickers, pos, fetched, results, data_for_plot,
          errors, warned, table, chart, seen>>

-----------------------------------------------------------------------------
(* Floats *)

NaN == -1000000
\* a cell that is not a number (pd.to_numeric(errors="coerce") turns it into NaN)
NonNumeric == -2000000

FastWindow == 20
SlowWindow == 50
RsiWindow == 14
TailWindow == 10
ConfidenceCap == 100
EmaScale == 100
RsiScale == 10

IsNaN(x) == x = NaN

\* float comparisons: False as soon as one side is NaN
FGt(a, b) == ~IsNaN(a) /\ ~IsNaN(b) /\ a > b
FLt(a, b) == ~IsNaN(a) /\ ~IsNaN(b) /\ a < b

Abs(x) == IF x < 0 THEN -x ELSE x

\* a / b rounded to the nearest integer, ties to even, for a >= 0 and b > 0
RoundDivNat(a, b) ==
    LET q == a \div b
        r == a % b
    IN  IF 2 * r < b THEN q
        ELSE IF 2 * r > b THEN q + 1
        ELSE IF q % 2 = 0 THEN q ELSE q + 1

RoundDiv(a, b) == IF a < 0 THEN -RoundDivNat(-a, b) ELSE RoundDivNat(a, b)

\* Python's min(a, b): b replaces a only when b < a, so min(100, nan) is 100
PyMin(a, b) == IF FLt(b, a) THEN b ELSE a

\* round(x, 2) of a value held in thousandths: the result is in hundredths
Round2(x) == IF IsNaN(x) THEN NaN ELSE RoundDiv(x, 10)

\* round(x, 1) of a value held in hundredths: the result is in tenths
Round1(x) == IF IsNaN(x) THEN NaN ELSE RoundDiv(x, 10)

-----------------------------------------------------------------------------
(* Series: a pandas Series is an index (labels) and values of equal length. *)
(* The rows of a provider frame are labelled 1..n (its dates); the labels   *)
(* of a default RangeIndex are integers, which never equal a date, and are  *)
(* modelled by 0, -1, -2, ...                                               *)

Series(idx, vals) == [index |-> idx, values |-> vals]

RangeIndex(n) == [i \in 1..n |-> 1 - i]

NaNs(n) == [i \in 1..n |-> NaN]

to_numeric(s) ==
    Series(s.index,
           [i \in 1..Len(s.values) |->
               IF s.values[i] = NonNumeric THEN NaN ELSE s.values[i]])

RECURSIVE KeepIdx(_, _)
\* the positions of the defined values among the first k
KeepIdx(vals, k) ==
    IF k = 0 THEN <<>>
    ELSE IF IsNaN(vals[k]) THEN KeepIdx(vals, k - 1)
    ELSE Append(KeepIdx(vals, k - 1), k)

dropna(s) ==
    LET keep == KeepIdx(s.values, Len(s.values))
    IN  Series([i \in 1..Len(keep) |-> s.index[keep[i]]],
               [i \in 1..Len(keep) |-> s.values[keep[i]]])

\* mutant of tail: the window is the whole column
WholeColumn(vals, k) == vals

\* s.tail(k): the last k entries, all of them when there are fewer
tail(vals, k) ==
    IF Len(vals) <= k THEN vals ELSE SubSeq(vals, Len(vals) - k + 1, Len(vals))

Defined(vals) == {vals[i] : i \in 1..Len(vals)} \ {NaN}

SetMin(S) == CHOOSE x \in S : \A y \in S : x <= y
SetMax(S) == CHOOSE x \in S : \A y \in S : x >= y

\* Series.min() / Series.max(): NaN is skipped; NaN when nothing is defined
series_min(vals) == IF Defined(vals) = {} THEN NaN ELSE SetMin(Defined(vals))
series_max(vals) == IF Defined(vals) = {} THEN NaN ELSE SetMax(Defined(vals))

RECURSIVE SumSeq(_, _)
SumSeq(vals, k) == IF k = 0 THEN 0 ELSE SumSeq(vals, k - 1) + vals[k]

RECURSIVE SumSq(_, _)
SumSq(vals, k) == IF k = 0 THEN 0 ELSE SumSq(vals, k - 1) + vals[k] * vals[k]

-----------------------------------------------------------------------------
(* The indicator library (ta) and scipy.stats.zscore, as app.py calls them *)

RECURSIVE Ewm(_, _, _, _, _)
\* Series.ewm(alpha = num/den, min_periods = 0, adjust = False).mean() over the
\* first k values: y1 = x1, yt = (1 - alpha) * y(t-1) + alpha * xt, held times scale
Ewm(vals, num, den, scale, k) ==
    IF k = 0 THEN <<>>
    ELSE IF k = 1 THEN <<vals[1] * scale>>
    ELSE LET prev == Ewm(vals, num, den, scale, k - 1)
         IN  Append(prev,
                    RoundDiv((den - num) * prev[k - 1] + num * vals[k] * scale, den))

\* EMAIndicator(close, window, fillna=True).ema_indicator(): span = window
ema_indicator(vals, window) == Ewm(vals, 2, window + 1, EmaScale, Len(vals))

\* close.diff(1) split into gains and losses; the first difference is NaN,
\* which where(diff > 0, 0.0) and where(diff < 0, 0.0) both turn into 0
Gains(vals) ==
    [i \in 1..Len(vals) |->
        IF i > 1 /\ vals[i] > vals[i - 1] THEN vals[i] - vals[i - 1] ELSE 0]
Losses(vals) ==
    [i \in 1..Len(vals) |->
        IF i > 1 /\ vals[i] < vals[i - 1] THEN vals[i - 1] - vals[i] ELSE 0]

\* 100 - 100 / (1 + up / dn) = 100 * up / (up + dn), in hundredths, and 100
\* where dn is 0 (np.where(emadn == 0, 100, ...))
RsiValue(up, dn) ==
    IF dn = 0 THEN 10000
    ELSE LET q == (up * 100) \div (up + dn)
             r == (up * 100) % (up + dn)
         IN  q * 100 + RoundDiv(r * 100, up + dn)

\* RSIIndicator(close, window, fillna=True).rsi(): Wilder smoothing, alpha = 1/window
rsi(vals, window) ==
    LET emaup == Ewm(Gains(vals), 1, window, RsiScale, Len(vals))
        emadn == Ewm(Losses(vals), 1, window, RsiScale, Len(vals))
    IN  [i \in 1..Len(vals) |-> RsiValue(emaup[i], emadn[i])]

\* round(100 * d / sqrt(v)) for d >= 0 and v > 0: the integer k with
\* (k - 1/2)^2 * v <= (100 * d)^2 <= (k + 1/2)^2 * v, ties to the even k
RoundRatioSqrt(d, v) ==
    LET x == 40000 * d * d
    IN  CHOOSE k \in 0..(100 * d) :
            LET lo == (2 * k - 1) * (2 * k - 1) * v
                hi == (2 * k + 1) * (2 * k + 1) * v
            IN  IF k % 2 = 0 THEN (k = 0 \/ lo <= x) /\ x <= hi
                ELSE lo < x /\ x < hi

\* scipy.stats.zscore(vals)[-1] with the population standard deviation
\* (ddof = 0), in hundredths after round(z, 2); a zero deviation gives NaN
zscore_last(vals) ==
    LET n == Len(vals)
        sum == SumSeq(vals, n)
        v == n * SumSq(vals, n) - sum * sum
        d == n * vals[n] - sum
    IN  IF v = 0 THEN NaN
        ELSE IF d < 0 THEN -RoundRatioSqrt(-d, v) ELSE RoundRatioSqrt(d, v)

-----------------------------------------------------------------------------
(* SAFE HELPERS *)

EMAIndicator == "EMAIndicator"
RSIIndicator == "RSIIndicator"

\* (no call below raises on a column of numbers and NaN, so the except branch
\* of either helper is never taken)
safe_indicator(series, indicator_class, window) ==
    LET s == dropna(to_numeric(series))
        n == Len(s.values)
    IN  IF n < window THEN Series(RangeIndex(n), NaNs(n))
        ELSE IF indicator_class = EMAIndicator
             THEN Series(s.index, ema_indicator(s.values, window))
        ELSE Series(s.index, rsi(s.values, window))

safe_zscore(series) ==
    LET s == dropna(to_numeric(series))
    IN  IF Len(s.values) < 2 THEN 0 ELSE zscore_last(s.values)

-----------------------------------------------------------------------------
(* DataFrame: len rows labelled 1..len, and col, a function from the column *)
(* names to the columns' values.                                            *)

Frame(n, columns) == [len |-> n, col |-> columns]

columns(data) == DOMAIN data.col

\* data.empty: no row or no column
empty(data) == data.len = 0 \/ columns(data) = {}

\* data[name]
Col(data, name) == Series([i \in 1..data.len |-> i], data.col[name])

\* data[name] = s: s is aligned on the frame's index; a row whose label s does
\* not hold gets NaN
SetCol(data, name, s) ==
    LET at(i) ==
            IF \E k \in 1..Len(s.index) : s.index[k] = i
            THEN s.values[CHOOSE k \in 1..Len(s.index) : s.index[k] = i]
            ELSE NaN
        new == [i \in 1..data.len |-> at(i)]
    IN  Frame(data.len,
              [c \in columns(data) \cup {name} |->
                  IF c = name THEN new ELSE data.col[c]])

\* s.iloc[-1]
iloc_last(s) == s.values[Len(s.values)]

-----------------------------------------------------------------------------
(* MAIN SCAN LOGIC: ticker parsing *)

Whitespace == {" "}

upper(c) == IF c = "a" THEN "A" ELSE IF c = "b" THEN "B" ELSE c

RECURSIVE split(_, _)
\* text.split(sep): the pieces between the separators, empty pieces included
split(text, sep) ==
    IF \A i \in 1..Len(text) : text[i] # sep THEN <<text>>
    ELSE LET i == CHOOSE j \in 1..Len(text) :
                      text[j] = sep /\ \A h \in 1..(j - 1) : text[h] # sep
         IN  <<SubSeq(text, 1, i - 1)>> \o split(SubSeq(text, i + 1, Len(text)), sep)

\* t.strip()
strip(t) ==
    LET solid == {i \in 1..Len(t) : t[i] \notin Whitespace}
    IN  IF solid = {} THEN <<>>
        ELSE SubSeq(t, SetMin(solid), SetMax(solid))

\* mutant of ParseTickers: the comprehension without its "if t.strip()" filter
ParseUnfiltered(text) ==
    LET pieces == split(text, ",")
    IN  [i \in 1..Len(pieces) |->
            [j \in 1..Len(strip(pieces[i])) |-> upper(strip(pieces[i])[j])]]

\* [t.strip().upper() for t in tickers_input.split(",") if t.strip()]
ParseTickers(text) ==
    LET pieces == split(text, ",")
        kept == SelectSeq(pieces, LAMBDA t : strip(t) # <<>>)
    IN  [i \in 1..Len(kept) |-> [j \in 1..Len(strip(kept[i])) |-> upper(strip(kept[i])[j])]]

-----------------------------------------------------------------------------
(* MAIN SCAN LOGIC: one ticker *)

\* lines 132-136: Close coerced, the three indicator columns added (the frame
\* of a single Ticker has flat columns: lines 125-126 do nothing)
WithIndicators(data) ==
    LET d1 == SetCol(data, "Close", to_numeric(Col(data, "Close")))
        d2 == SetCol(d1, "EMA_20", safe_indicator(Col(d1, "Close"), EMAIndicator, FastWindow))
        d3 == SetCol(d2, "EMA_50", safe_indicator(Col(d2, "Close"), EMAIndicator, SlowWindow))
    IN  SetCol(d3, "RSI", safe_indicator(Col(d3, "Close"), RSIIndicator, RsiWindow))

Trend(ema20, ema50) ==
    IF FGt(ema20, ema50) THEN "Bullish"
    ELSE IF FLt(ema20, ema50) THEN "Bearish"
    ELSE "Neutral"

\* abs(ema20 - ema50) / last_close * 100 if last_close != 0 else 0, doubled and
\* rounded to 2 decimals: round(distance * 2, 2), in hundredths
DoubledDistance(ema20, ema50, last_close) ==
    IF last_close = 0 THEN 0
    ELSE IF IsNaN(last_close) \/ IsNaN(ema20) \/ IsNaN(ema50) THEN NaN
    ELSE RoundDiv(Abs(ema20 - ema50) * (20000 \div EmaScale), last_close)

\* mutant of Confidence: the min(100, ...) clamp left out
Unclamped(ema20, ema50, last_close) == DoubledDistance(ema20, ema50, last_close)

\* min(100, round(distance * 2, 2)), in hundredths
Confidence(ema20, ema50, last_close) ==
    PyMin(ConfidenceCap * 100, DoubledDistance(ema20, ema50, last_close))

\* mutant of Support: the window is read from data_for_plot once it is set
StaleSupport(data) ==
    LET d == IF data_for_plot # <<>> THEN data_for_plot[1] ELSE data
    IN  IF "Low" \in columns(d) THEN series_min(tail(d.col["Low"], TailWindow)) ELSE 0

\* data["Low"].tail(10).min() if "Low" in data.columns else 0
Support(data) ==
    IF "Low" \in columns(data) THEN series_min(tail(data.col["Low"], TailWindow)) ELSE 0

\* data["High"].tail(10).max() if "High" in data.columns else 0
Resistance(data) ==
    IF "High" \in columns(data) THEN series_max(tail(data.col["High"], TailWindow)) ELSE 0

SmartMoney(data) ==
    IF "Volume" \in columns(data) THEN safe_zscore(Col(data, "Volume")) ELSE 0

\* lines 138-166: the record appended for ticker, data being the frame with
\* its indicator columns
ResultRecord(ticker, data) ==
    LET last_close == iloc_last(Col(data, "Close"))
        ema20 == iloc_last(Col(data, "EMA_20"))
        ema50 == iloc_last(Col(data, "EMA_50"))
        rsi_last == iloc_last(Col(data, "RSI"))
    IN  [Ticker |-> ticker,
         Price |-> Round2(last_close),
         Trend |-> Trend(ema20, ema50),
         Confidence |-> Confidence(ema20, ema50, last_close),
         Support |-> Round2(Support(data)),
         Resistance |-> Round2(Resistance(data)),
         SmartMoney |-> SmartMoney(data),
         RSI |-> Round1(rsi_last)]

\* mutant of KeepFirst: the assignment without its "is None" guard
KeepLast(current, data) == <<data>>

\* if data_for_plot is None: data_for_plot = data
KeepFirst(current, data) == IF current = <<>> THEN <<data>> ELSE current

-----------------------------------------------------------------------------
(* The handler of the Run Scan button *)

Init(texts) ==
    /\ tickers_input \in texts
    /\ pc = "idle"
    /\ tickers = <<>>
    /\ pos = 0
    /\ fetched = <<>>
    /\ results = <<>>
    /\ data_for_plot = <<>>
    /\ errors = <<>>
    /\ warned = FALSE
    /\ table = FALSE
    /\ chart = FALSE
    /\ seen = {}

\* lines 107-114: the button is pressed; the text is parsed and either the
\* warning is shown or the loop is set up
RunScan ==
    /\ pc = "idle"
    /\ tickers' = ParseTickers(tickers_input)
    /\ IF tickers' = <<>>
       THEN /\ warned' = TRUE
            /\ pc' = "done"
       ELSE /\ warned' = FALSE
            /\ pc' = "loop"
    /\ results' = <<>>
    /\ data_for_plot' = <<>>
    /\ UNCHANGED <<tickers_input, pos, fetched, errors, table, chart, seen>>

\* lines 118-122: history() raises, or the frame is empty or has fewer than
\* 2 rows and ValueError("Not enough data") is raised
Raises(resp) == resp.raises \/ empty(resp.data) \/ resp.data.len < 2

\* line 128
NoClose(resp) == "Close" \notin columns(resp.data)

\* mutant of ScanTicker: the try block is around the loop, so the first
\* exception ends the scan
ScanTickerAbort(resp) ==
    /\ pc = "loop"
    /\ pos < Len(tickers)
    /\ pos' = pos + 1
    /\ fetched' = Append(fetched, resp)
    /\ LET ticker == tickers[pos + 1]
       IN  IF Raises(resp)
           THEN /\ errors' = Append(errors, ticker)
                /\ pc' = "done"
                /\ UNCHANGED <<results, data_for_plot, seen>>
           ELSE IF NoClose(resp)
           THEN /\ errors' = Append(errors, ticker)
                /\ UNCHANGED <<pc, results, data_for_plot, seen>>
           ELSE LET data == WithIndicators(resp.data)
                IN  /\ results' = Append(results, ResultRecord(ticker, data))
                    /\ data_for_plot' = KeepFirst(data_for_plot, data)
                    /\ seen' = seen \cup {<<ticker, resp, ResultRecord(ticker, data)>>}
                    /\ UNCHANGED <<pc, errors>>
    /\ UNCHANGED <<tickers_input, tickers, warned, table, chart>>

\* lines 116-172: one turn of the for loop, resp being what history() does
ScanTicker(resp) ==
    /\ pc = "loop"
    /\ pos < Len(tickers)
    /\ pos' = pos + 1
    /\ fetched' = Append(fetched, resp)
    /\ LET ticker == tickers[pos + 1]
       IN  IF Raises(resp)
           \* except Exception as e: st.error(...)
           THEN /\ errors' = Append(errors, ticker)
                /\ UNCHANGED <<results, data_for_plot, seen>>
           ELSE IF NoClose(resp)
           \* st.error(...); continue
           THEN /\ errors' = Append(errors, ticker)
                /\ UNCHANGED <<results, data_for_plot, seen>>
           ELSE LET data == WithIndicators(resp.data)
                IN  /\ results' = Append(results, ResultRecord(ticker, data))
                    /\ data_for_plot' = KeepFirst(data_for_plot, data)
                    /\ seen' = seen \cup {<<ticker, resp, ResultRecord(ticker, data)>>}
                    /\ UNCHANGED errors
    /\ UNCHANGED <<tickers_input, pc, tickers, warned, table, chart>>

\* lines 174-212: after the loop, the table and the chart
Render ==
    /\ pc = "loop"
    /\ pos = Len(tickers)
    /\ pc' = "done"
    /\ table' = (results # <<>>)
    /\ chart' = (results # <<>> /\ data_for_plot # <<>>)
    /\ UNCHANGED <<tickers_input, tickers, pos, fetched, results, data_for_plot,
                   errors, warned, seen>>

\* the user types another text: Streamlit runs the script again from the top
\* with fresh variables, up to the button
Rerun(text) ==
    /\ pc = "done"
    /\ tickers_input' = text
    /\ pc' = "idle"
    /\ tickers' = <<>>
    /\ pos' = 0
    /\ fetched' = <<>>
    /\ results' = <<>>
    /\ data_for_plot' = <<>>
    /\ errors' = <<>>
    /\ warned' = FALSE
    /\ table' = FALSE
    /\ chart' = FALSE
    /\ UNCHANGED seen

-----------------------------------------------------------------------------
(* Provider answers *)

MaxBars == 3
MaxRun == 11
MaxTickers == 4
MaxText == 4
MaxRerunTickers == 2

Bar(close, low, high, volume) ==
    [Close |-> close, Low |-> low, High |-> high, Volume |-> volume]

AllColumns == {"Open", "Close", "Low", "High", "Volume"}

\* the frame of the given bars, restricted to the given columns (Open is not
\* read by the analysis and repeats Close)
FrameOf(bars, cols) ==
    Frame(Len(bars),
          [c \in cols |->
              [i \in 1..Len(bars) |-> IF c = "Open" THEN bars[i].Close ELSE bars[i][c]]])

Answer(bars, cols) == [raises |-> FALSE, data |-> FrameOf(bars, cols)]
Failure == [raises |-> TRUE, data |-> FrameOf(<<>>, {})]

ColumnSets == {AllColumns} \cup {AllColumns \ {c} : c \in {"Close", "Low", "High", "Volume"}}

\* short histories, every sequence of these bars up to MaxBars long
ShortBars ==
    { Bar(NaN, NaN, NaN, NaN),
      Bar(NonNumeric, 1000, 3000, 1),
      Bar(0, 0, 500, 1),
      Bar(2346, 1500, 3000, NaN),
      Bar(2346, 1500, 3000, 1),
      Bar(2353, 2000, 2500, 5) }

RECURSIVE SeqsUpTo(_, _)
SeqsUpTo(S, n) ==
    IF n = 0 THEN {<<>>}
    ELSE LET shorter == SeqsUpTo(S, n - 1)
         IN  shorter \cup {Append(q, x) : q \in {r \in shorter : Len(r) = n - 1}, x \in S}

ShortAnswers == {Answer(bars, cols) : bars \in SeqsUpTo(ShortBars, MaxBars), cols \in ColumnSets}

\* long histories: n bars, the last run of them closing at last and the ones
\* before at head, the final bar's Close undefined when nanLast
LongLens == {FastWindow - 1, FastWindow, 25, SlowWindow - 1, SlowWindow, SlowWindow + 1}
LongPrices == {1000, 50000, 100000}

LongBars(n, run, head, last, nanLast) ==
    [i \in 1..n |->
        LET c == IF i > n - run THEN last ELSE head
        IN  IF nanLast /\ i = n THEN Bar(NaN, NaN, NaN, NaN)
            ELSE Bar(c, c - 500, c + 500, 1)]

LongAnswers ==
    {Answer(LongBars(n, run, head, last, nanLast), AllColumns) :
        n \in LongLens, run \in 0..MaxRun, head \in LongPrices, last \in LongPrices,
        nanLast \in BOOLEAN}

\* the histories of the documented scenarios
LowTailBars ==
    LET low == <<10, 12, 11, 9, 13, 14, 10, 11, 12, 15>>
        high == <<11, 12, 12, 10, 13, 14, 11, 12, 13, 15>>
    IN  <<Bar(8000, 8000, 20000, 1), Bar(8000, 8000, 20000, 1)>>
        \o [i \in 1..10 |-> Bar(low[i] * 1000, low[i] * 1000, high[i] * 1000, 1)]

VolumeSpikeBars == [i \in 1..5 |-> Bar(2346, 1500, 3000, IF i = 5 THEN 5 ELSE 1)]

ScenarioAnswers == {Answer(LowTailBars, AllColumns), Answer(VolumeSpikeBars, AllColumns)}

AnalysisAnswers == {Failure} \cup ShortAnswers \cup LongAnswers \cup ScenarioAnswers

\* the answers of the batch runs: a raised error, an empty frame, a frame
\* without Close, and two histories that are analysed
EmptyAnswer == Answer(<<>>, AllColumns)
NoCloseAnswer == Answer(<<Bar(2346, 1500, 3000, 1), Bar(2346, 1500, 3000, 1)>>, AllColumns \ {"Close"})
QuietAnswer == Answer(<<Bar(2346, 1500, 3000, 1), Bar(0, 0, 500, 1)>>, AllColumns)
BusyAnswer == Answer(<<Bar(2346, 1500, 3000, 1), Bar(2353, 2000, 2500, 5)>>, AllColumns)

BatchAnswers == {Failure, EmptyAnswer, NoCloseAnswer, QuietAnswer, BusyAnswer}

-----------------------------------------------------------------------------
(* Ticker texts *)

Characters == {"a", "B", ",", " "}

AnyTexts == SeqsUpTo(Characters, MaxText)

RECURSIVE Join(_)
\* the names joined by ", "
Join(names) ==
    IF Len(names) = 0 THEN <<>>
    ELSE IF Len(names) = 1 THEN <<names[1]>>
    ELSE <<names[1], ",", " ">> \o Join(Tail(names))

ListTexts == {Join(names) : names \in SeqsUpTo({"a", "B"}, MaxTickers)}

RerunTexts == {Join(names) : names \in SeqsUpTo({"a", "B"}, MaxRerunTickers)}

-----------------------------------------------------------------------------
(* Specifications *)

\* one ticker, every history
InitAnalysis == Init({<<"a">>})
NextAnalysis == RunScan \/ (\E resp \in AnalysisAnswers : ScanTicker(resp)) \/ Render
SpecAnalysis == InitAnalysis /\ [][NextAnalysis]_vars

\* ticker lists, the five batch answers
InitBatch == Init(ListTexts)
NextBatch == RunScan \/ (\E resp \in BatchAnswers : ScanTicker(resp)) \/ Render
SpecBatch == InitBatch /\ [][NextBatch]_vars

\* every text of the ticker box
InitText == Init(AnyTexts)
NextText == RunScan \/ (\E resp \in {Failure, BusyAnswer} : ScanTicker(resp)) \/ Render
SpecText == InitText /\ [][NextText]_vars

\* scan after scan, short ticker lists, the five batch answers
InitRerun == Init(RerunTexts)
NextRerun ==
    \/ RunScan
    \/ \E resp \in BatchAnswers : ScanTicker(resp)
    \/ Render
    \/ \E text \in RerunTexts : Rerun(text)
SpecRerun == InitRerun /\ [][NextRerun]_vars

Next == NextBatch
Spec == SpecBatch

-----------------------------------------------------------------------------
(* What the properties speak of *)

\* a ticker fails when the provider raises, answers with fewer than 2 bars
\* (none included), or answers without a Close column
Failing(resp) ==
    resp.raises \/ resp.data.len < 2 \/ "Close" \notin DOMAIN resp.data.col

RECURSIVE Positions(_, _)
\* the positions among the first k whose answer is failing (or not), in order
Positions(k, failing) ==
    IF k = 0 THEN <<>>
    ELSE IF Failing(fetched[k]) = failing THEN Append(Positions(k - 1, failing), k)
    ELSE Positions(k - 1, failing)

TickersAt(ps) == [i \in 1..Len(ps) |-> tickers[ps[i]]]

\* the answer the i-th result record was made from
SourceOf(i) == fetched[Positions(Len(fetched), FALSE)[i]]

IsNumber(x) == x # NaN /\ x # NonNumeric

\* the closes of an answer that are numbers, in order
UsableCloses(resp) ==
    IF resp.raises \/ "Close" \notin DOMAIN resp.data.col THEN <<>>
    ELSE SelectSeq(resp.data.col["Close"], IsNumber)

UsableVolumes(resp) == SelectSeq(resp.data.col["Volume"], IsNumber)

LastOf(vals) == vals[Len(vals)]

\* the last defined value of an indicator column of the analysed frame, and
\* last_close (held times EmaScale) where the column has none
LastDefinedOr(column, resp) ==
    LET vals == SelectSeq(WithIndicators(resp.data).col[column], IsNumber)
    IN  IF vals = <<>> THEN LastOf(UsableCloses(resp)) * EmaScale ELSE LastOf(vals)

\* the rows of the trailing min(10, n) bars
TrailingRows(resp) == {i \in 1..resp.data.len : i > resp.data.len - TailWindow}

TrailingLows(resp) == {resp.data.col["Low"][i] : i \in TrailingRows(resp)} \ {NaN}
TrailingHighs(resp) == {resp.data.col["High"][i] : i \in TrailingRows(resp)} \ {NaN}

-----------------------------------------------------------------------------
(* Properties *)

\* C1: whichever tickers fail, the loop visits every ticker once and reaches
\* the end; the results are the non-failing tickers in input order and one
\* error is reported per failing ticker, in input order.
C1_PartialFailureIsolation ==
    /\ Len(fetched) = pos
    /\ pos <= Len(tickers)
    /\ [i \in 1..Len(results) |-> results[i].Ticker] = TickersAt(Positions(pos, FALSE))
    /\ errors = TickersAt(Positions(pos, TRUE))
    /\ pc = "done" => pos = Len(tickers)

\* a finished scan of four tickers in which only the third failed
C1_Witness ==
    /\ pc = "done"
    /\ Len(tickers) = 4
    /\ Positions(pos, TRUE) = <<3>>
    /\ Len(results) = 3
    /\ errors = <<tickers[3]>>

C3_FirstSuccessSeries ==
    /\ (data_for_plot = <<>>) <=> (results = <<>>)
    /\ results # <<>> => data_for_plot = <<WithIndicators(SourceOf(1).data)>>

\* a failing ticker, then a success, then a success with a higher confidence
\* and another frame: the series is still the first success's
C3_Witness ==
    /\ Len(fetched) >= 3
    /\ Failing(fetched[1])
    /\ Len(results) >= 2
    /\ results[2].Confidence > results[1].Confidence
    /\ data_for_plot = <<WithIndicators(fetched[2].data)>>
    /\ data_for_plot # <<WithIndicators(fetched[3].data)>>

\* C4: a text that is empty or holds only commas and whitespace gets the
\* warning and nothing else: no provider call, no result, no error, no table
\* and no chart.
C4_EmptyInputWarns ==
    (pc # "idle" /\ \A i \in 1..Len(tickers_input) : tickers_input[i] \in {",", " "})
        => /\ warned
           /\ pc = "done"
           /\ fetched = <<>>
           /\ results = <<>>
           /\ errors = <<>>
           /\ ~table
           /\ ~chart

\* the text ", ," after the button was pressed
C4_Witness ==
    /\ tickers_input = <<",", " ", ",">>
    /\ pc = "done"
    /\ warned

\* C5: when the last fast and slow EMA values of a history with at least 2
\* valid closes are equal, last_close standing in for an undefined one, the
\* record's trend is Neutral and its confidence 0.
C5_EqualEmaNeutralZero ==
    \A i \in 1..Len(results) :
        (/\ Len(UsableCloses(SourceOf(i))) >= 2
         /\ LastDefinedOr("EMA_20", SourceOf(i)) = LastDefinedOr("EMA_50", SourceOf(i)))
            => results[i].Trend = "Neutral" /\ results[i].Confidence = 0

C7_SmartMoneyZeroOrZscore ==
    \A i \in 1..Len(results) :
        (Len(UsableCloses(SourceOf(i))) >= 2 /\ "Volume" \in DOMAIN SourceOf(i).data.col) =>
            LET vols == UsableVolumes(SourceOf(i))
            IN  IF Len(vols) < 2 \/ \A k \in 1..Len(vols) : vols[k] = vols[1]
                THEN results[i].SmartMoney = 0
                ELSE results[i].SmartMoney = zscore_last(vols)

DocumentedLows == <<10, 12, 11, 9, 13, 14, 10, 11, 12, 15>>

\* C8: in a record made from a frame with Low and High, whose trailing
\* min(10, length) bars hold a defined Low and High, support is the least of
\* these Lows, resistance the greatest of these Highs, and support <=
\* resistance; the Low tail 10,12,11,9,13,14,10,11,12,15 gives support 9.
C8_SupportBelowResistance ==
    \A i \in 1..Len(results) :
        LET src == SourceOf(i)
        IN  (/\ {"Low", "High"} \subseteq DOMAIN src.data.col
             /\ TrailingLows(src) # {}
             /\ TrailingHighs(src) # {})
                => /\ results[i].Support = Round2(SetMin(TrailingLows(src)))
                   /\ results[i].Resistance = Round2(SetMax(TrailingHighs(src)))
                   /\ results[i].Support <= results[i].Resistance
                   /\ (/\ src.data.len >= 10
                       /\ \A k \in 1..10 :
                              src.data.col["Low"][src.data.len - 10 + k] = DocumentedLows[k] * 1000)
                          => results[i].Support = 900

\* the record of the documented Low tail, which follows two bars with a lower
\* Low and a higher High
C8_Witness ==
    /\ Len(results) = 1
    /\ SourceOf(1) = Answer(LowTailBars, AllColumns)
    /\ results[1].Support = 900
    /\ results[1].Resistance = 1500

\* C9: every answer with fewer than 2 usable closes after coercion gets no
\* record and one error, so the records are at most the other answers and
\* the errors at least these.
C9_InsufficientDataRejected ==
    LET short == {p \in 1..Len(fetched) : Len(UsableCloses(fetched[p])) < 2}
    IN  /\ Len(results) <= Len(fetched) - Cardinality(short)
        /\ Len(errors) >= Cardinality(short)

\* C10: the price of a record is the last defined close of its answer,
\* rounded, also when the final raw bar has no defined Close.
C10_PriceIsLastDefinedClose ==
    \A i \in 1..Len(results) :
        Len(UsableCloses(SourceOf(i))) >= 2
            => results[i].Price = Round2(LastOf(UsableCloses(SourceOf(i))))

====
